---- MODULE Spec2Model ----
(***************************************************************************)
(* Model of the Yandex Cloud DNS provider of external-dns                  *)
(* (provider/yandex/yandex.go) running against the in-memory DNS zone      *)
(* client of its test-suite (mockDNSZoneClient).                            *)
(*                                                                         *)
(* Go strings are sequences of one-character strings, so that suffix and   *)
(* prefix tests, trimming and concatenation are computed as the code       *)
(* computes them: "x.a." is <<"x", ".", "a", ".">>.  Record types and zone *)
(* types are only ever compared for equality and are kept as TLA+ strings. *)
(***************************************************************************)
EXTENDS Integers, Sequences, FiniteSets, TLC

VARIABLES
    dnsZones,        \* mockDNSZoneClient.zones: zone Id -> DnsZone
    recordSets,      \* mockDNSZoneClient.recordSets: zone Id -> (key -> RecordSet)
    dryRun,          \* YandexProvider.dryRun
    domainFilter,    \* YandexProvider.domainFilter.Filters
    zoneTypeFilter,  \* YandexProvider.zoneTypeFilter (its zoneType)
    zoneIDFilter,    \* YandexProvider.zoneIDFilter.ZoneIDs
    op,              \* the last operation invoked: "new", "ApplyChanges", "zones"
    changes,         \* the plan.Changes handed to the last ApplyChanges
    before,          \* recordSets when the last operation was invoked
    matched,         \* the result of zones() in the last operation
    updateRequest,   \* the unseparated request built by the last ApplyChanges
    separated,       \* the result of separateChange in the last ApplyChanges
    listCalls,       \* List calls of the last operation, in order: the error each
                     \* returned
    calls,           \* UpdateRecordSets calls of the last ApplyChanges, in order:
                     \* <<[request, err], ...>>
    err,             \* the error the last operation returned (Nil for none)
    previous,        \* changes, before and err of the ApplyChanges call that the
                     \* last ApplyChanges followed at once (NoPrevious for none)
    args,            \* the arguments of the last function called on its own
    result           \* what the last Records call or function call returned

vars == <<dnsZones, recordSets, dryRun, domainFilter, zoneTypeFilter, zoneIDFilter,
          op, changes, before, matched, updateRequest, separated, listCalls, calls, err,
          previous, args, result>>

(***************************************************************************)
(* Go strings                                                              *)
(***************************************************************************)
Dot == <<".">>

Range(s) == {s[i] : i \in 1..Len(s)}

\* strings.HasSuffix
HasSuffix(s, suffix) ==
    /\ Len(suffix) <= Len(s)
    /\ SubSeq(s, Len(s) - Len(suffix) + 1, Len(s)) = suffix

\* strings.HasPrefix
HasPrefix(s, prefix) ==
    /\ Len(prefix) <= Len(s)
    /\ SubSeq(s, 1, Len(prefix)) = prefix

\* strings.TrimSuffix
TrimSuffix(s, suffix) ==
    IF HasSuffix(s, suffix) THEN SubSeq(s, 1, Len(s) - Len(suffix)) ELSE s

\* strings.Count(s, ".")
Count(s, c) == Cardinality({i \in 1..Len(s) : s[i] = c})

\* strings.ToLower, on the alphabet of the model
ToLower(s) ==
    [i \in 1..Len(s) |->
        CASE s[i] = "A" -> "a"
          [] s[i] = "B" -> "b"
          [] s[i] = "X" -> "x"
          [] OTHER -> s[i]]

\* net.ParseIP(hostname) != nil: the model writes an IP address as digits only
ParseIP(hostname) ==
    /\ hostname # <<>>
    /\ Range(hostname) \subseteq {"1", "2"}

\* provider.EnsureTrailingDot
EnsureTrailingDot(hostname) ==
    IF ParseIP(hostname) THEN hostname ELSE TrimSuffix(hostname, Dot) \o Dot

(***************************************************************************)
(* The filters of the surrounding framework                                *)
(***************************************************************************)
\* endpoint.NewDomainFilter: every filter trimmed of its trailing dot and lowered
NewDomainFilter(filters) ==
    [i \in 1..Len(filters) |-> ToLower(TrimSuffix(filters[i], Dot))]

\* endpoint.matchFilter, one filter against the stripped domain; "empty" is the
\* filter == "" branch, which ends the loop with emptyval
matchOne(filter, strippedDomain) ==
    IF HasPrefix(filter, Dot) /\ HasSuffix(strippedDomain, filter) THEN TRUE
    ELSE IF Count(strippedDomain, ".") = Count(filter, ".") THEN strippedDomain = filter
    ELSE HasSuffix(strippedDomain, Dot \o filter)

RECURSIVE matchFilter(_, _, _, _)
matchFilter(filters, domain, emptyval, i) ==
    IF Len(filters) = 0 THEN emptyval
    ELSE IF i > Len(filters) THEN FALSE
    ELSE IF filters[i] = <<>> THEN emptyval
    ELSE IF matchOne(filters[i], ToLower(TrimSuffix(domain, Dot))) THEN TRUE
    ELSE matchFilter(filters, domain, emptyval, i + 1)

\* endpoint.DomainFilter.Match (the provider never sets an exclusion list)
DomainFilterMatch(filters, domain) == matchFilter(filters, domain, TRUE, 1)

\* provider.ZoneTypeFilter.Match on a string zone type
ZoneTypeFilterMatch(zoneType, t) ==
    IF zoneType = "" THEN TRUE
    ELSE IF zoneType = "public" THEN t = "public"
    ELSE IF zoneType = "private" THEN t = "private"
    ELSE FALSE

\* provider.ZoneIDFilter.Match
ZoneIDFilterMatch(zoneIDs, zoneID) ==
    \/ Len(zoneIDs) = 0
    \/ \E i \in 1..Len(zoneIDs) : HasSuffix(zoneID, zoneIDs[i])

\* provider.SupportedRecordType
SupportedRecordType(recordType) == recordType \in {"A", "CNAME", "SRV", "TXT", "NS"}

\* provider.ZoneIDName.FindZone, ranging over the map in the order iter: the
\* result is <<suitableZoneID, suitableZoneName>>
RECURSIVE FindZoneFrom(_, _, _, _, _)
FindZoneFrom(z, iter, hostname, i, best) ==
    IF i > Len(iter) THEN best
    ELSE LET zoneID == iter[i]
             zoneName == z[zoneID]
             better == /\ hostname = zoneName \/ HasSuffix(hostname, Dot \o zoneName)
                       /\ best[2] = <<>> \/ Len(zoneName) > Len(best[2])
         IN  FindZoneFrom(z, iter, hostname, i + 1,
                          IF better THEN <<zoneID, zoneName>> ELSE best)

FindZone(z, iter, hostname) == FindZoneFrom(z, iter, hostname, 1, <<<<>>, <<>>>>)

(***************************************************************************)
(* Values                                                                  *)
(***************************************************************************)
\* the error of a List call that fails
ListFailed == [msg |-> "list failed", zone |-> <<>>, name |-> <<>>, type |-> ""]

\* a nil error, and the two errors of the mock client
Nil == [msg |-> "nil", zone |-> <<>>, name |-> <<>>, type |-> ""]

NotFound(recordSet, zoneID) ==
    [msg |-> "record set not found", zone |-> zoneID,
     name |-> recordSet.Name, type |-> recordSet.Type]

AlreadyExists(recordSet, zoneID) ==
    [msg |-> "record set already exists", zone |-> zoneID,
     name |-> recordSet.Name, type |-> recordSet.Type]

yandexRecordTTL == 300

RECURSIVE SeqOf(_)
\* the elements of a finite set in some order (a Go map ranged over once)
SeqOf(S) ==
    IF S = {} THEN <<>>
    ELSE LET x == CHOOSE y \in S : TRUE IN <<x>> \o SeqOf(S \ {x})

\* every order a Go map with the keys S can be ranged over in
Perms(S) == {p \in [1..Cardinality(S) -> S] : Range(p) = S}

Restrict(f, S) == [k \in S |-> f[k]]

\* make(map[string]...)
EmptyMap == [k \in {} |-> k]

(***************************************************************************)
(* mockDNSZoneClient                                                       *)
(***************************************************************************)
\* getRecordSetKey with the TTL made part of the key
getRecordSetKey_WithTtl(recordSet) ==
    recordSet.Name \o <<"|key|">> \o <<recordSet.Type>>
        \o <<IF recordSet.Ttl = yandexRecordTTL THEN "default" ELSE "custom">>

getRecordSetKey(recordSet) == recordSet.Name \o <<"|key|">> \o <<recordSet.Type>>

equalRecordSetsData(first, second) ==
    IF Len(first) # Len(second) THEN FALSE
    ELSE LET firstMap == [k \in Range(first) |-> TRUE]
             \* secondMap[k] of a missing key is false
             secondMap(k) == k \in Range(second)
         IN  \A k \in DOMAIN firstMap : firstMap[k] = secondMap(k)

equalRecordSets(first, second) ==
    /\ equalRecordSetsData(first.Data, second.Data)
    /\ first.Name = second.Name
    /\ first.Type = second.Type
    /\ first.Ttl = second.Ttl

recordSetExists(rs, zoneID, recordSet) ==
    /\ zoneID \in DOMAIN rs
    /\ getRecordSetKey(recordSet) \in DOMAIN rs[zoneID]

\* the map built by newMockYandexProviderWithDefaultZonesAndRecordSets
RECURSIVE putDefaultRecords(_, _, _)
putDefaultRecords(rs, defaultRecords, i) ==
    IF i > Len(defaultRecords) THEN rs
    ELSE LET d == defaultRecords[i]
             key == getRecordSetKey(d.RecordSet)
             m == rs[d.ZoneID]
         IN  putDefaultRecords(
                 [rs EXCEPT ![d.ZoneID] =
                     [k \in DOMAIN m \cup {key} |-> IF k = key THEN d.RecordSet ELSE m[k]]],
                 defaultRecords, i + 1)

newMockZones(defaultZones) ==
    [id \in {defaultZones[i].Id : i \in 1..Len(defaultZones)} |->
        LET last == CHOOSE i \in 1..Len(defaultZones) :
                        /\ defaultZones[i].Id = id
                        /\ \A j \in (i + 1)..Len(defaultZones) : defaultZones[j].Id # id
        IN  defaultZones[last]]

newMockRecordSets(defaultZones, defaultRecords) ==
    putDefaultRecords([id \in DOMAIN newMockZones(defaultZones) |-> EmptyMap],
                      defaultRecords, 1)

\* mockDNSZoneClient.List; listErr is the error of a client whose call fails
List(zs, listErr) ==
    IF listErr # Nil THEN [DnsZones |-> <<>>, err |-> listErr]
    ELSE [DnsZones |-> SeqOf({zs[id] : id \in DOMAIN zs}), err |-> Nil]

\* mockDNSZoneClient.ListRecordSets, in some order
ListRecordSets(zs, rs, zoneID) ==
    IF zoneID \notin DOMAIN zs
    THEN [RecordSets |-> <<>>,
          err |-> [msg |-> "zone does not exist", zone |-> zoneID, name |-> <<>>, type |-> ""]]
    ELSE [RecordSets |-> SeqOf({rs[zoneID][k] : k \in DOMAIN rs[zoneID]}), err |-> Nil]

\* the first deletion that is absent or differs from the stored record set: 0 for none
firstBadDeletion(rs, zoneID, deletions) ==
    LET bad == {i \in 1..Len(deletions) :
                   \/ ~recordSetExists(rs, zoneID, deletions[i])
                   \/ ~equalRecordSets(deletions[i],
                                       rs[zoneID][getRecordSetKey(deletions[i])])}
    IN  IF bad = {} THEN 0 ELSE CHOOSE i \in bad : \A j \in bad : i <= j

deleteRecords(rs, zoneID, deletions) ==
    LET bad == firstBadDeletion(rs, zoneID, deletions)
    IN  IF bad # 0 THEN [recordSets |-> rs, err |-> NotFound(deletions[bad], zoneID)]
        ELSE IF deletions = <<>> THEN [recordSets |-> rs, err |-> Nil]
        ELSE [recordSets |->
                 [rs EXCEPT ![zoneID] =
                     Restrict(@, DOMAIN @ \ {getRecordSetKey(deletions[i]) :
                                                i \in 1..Len(deletions)})],
              err |-> Nil]

\* the first addition whose key is taken by a record set that differs: 0 for none
firstBadAddition(rs, zoneID, additions) ==
    LET bad == {i \in 1..Len(additions) :
                   /\ recordSetExists(rs, zoneID, additions[i])
                   /\ ~equalRecordSets(additions[i],
                                       rs[zoneID][getRecordSetKey(additions[i])])}
    IN  IF bad = {} THEN 0 ELSE CHOOSE i \in bad : \A j \in bad : i <= j

RECURSIVE putAdditions(_, _, _, _)
putAdditions(rs, zoneID, additions, i) ==
    IF i > Len(additions) THEN rs
    ELSE IF recordSetExists(rs, zoneID, additions[i])
         THEN putAdditions(rs, zoneID, additions, i + 1)
         ELSE LET key == getRecordSetKey(additions[i])
                  m == rs[zoneID]
              IN  putAdditions(
                      [rs EXCEPT ![zoneID] =
                          [k \in DOMAIN m \cup {key} |->
                              IF k = key THEN additions[i] ELSE m[k]]],
                      zoneID, additions, i + 1)

\* addRecords storing the additions that precede the one it rejects
addRecords_StoreUntilConflict(rs, zoneID, additions) ==
    LET bad == firstBadAddition(rs, zoneID, additions)
    IN  IF bad # 0
        THEN [recordSets |-> putAdditions(rs, zoneID, SubSeq(additions, 1, bad - 1), 1),
              err |-> AlreadyExists(additions[bad], zoneID)]
        ELSE [recordSets |-> putAdditions(rs, zoneID, additions, 1), err |-> Nil]

addRecords(rs, zoneID, additions) ==
    LET bad == firstBadAddition(rs, zoneID, additions)
    IN  IF bad # 0 THEN [recordSets |-> rs, err |-> AlreadyExists(additions[bad], zoneID)]
        ELSE [recordSets |-> putAdditions(rs, zoneID, additions, 1), err |-> Nil]

\* UpdateRecordSets with the additions made before the deletions
UpdateRecordSets_AdditionsFirst(rs, in) ==
    LET a == addRecords(rs, in.DnsZoneId, in.Additions)
    IN  IF a.err # Nil THEN a
        ELSE deleteRecords(a.recordSets, in.DnsZoneId, in.Deletions)

\* mockDNSZoneClient.UpdateRecordSets: the deletions, then the additions
UpdateRecordSets(rs, in) ==
    LET d == deleteRecords(rs, in.DnsZoneId, in.Deletions)
    IN  IF d.err # Nil THEN d
        ELSE addRecords(d.recordSets, in.DnsZoneId, in.Additions)

(***************************************************************************)
(* YandexProvider                                                          *)
(***************************************************************************)
getZoneType(zone) == IF zone.PublicVisibility THEN "public" ELSE "private"

\* the test of zones() with the zone-ID filter put to the Id and to the Name
keepZone_IdAndName(zone, df, ztf, zif) ==
    /\ DomainFilterMatch(df, zone.Zone)
    /\ ZoneTypeFilterMatch(ztf, getZoneType(zone))
    /\ ZoneIDFilterMatch(zif, zone.Id)
    /\ ZoneIDFilterMatch(zif, zone.Name)

\* the test zones() puts every listed zone to
keepZone(zone, df, ztf, zif) ==
    /\ DomainFilterMatch(df, zone.Zone)
    /\ ZoneTypeFilterMatch(ztf, getZoneType(zone))
    /\ \/ ZoneIDFilterMatch(zif, zone.Id)
       \/ ZoneIDFilterMatch(zif, zone.Name)

\* the loop of zones() over the List response
RECURSIVE zonesFrom(_, _, _, _, _, _)
zonesFrom(listed, df, ztf, zif, i, acc) ==
    IF i > Len(listed) THEN acc
    ELSE LET zone == listed[i]
         IN  zonesFrom(listed, df, ztf, zif, i + 1,
                       IF keepZone(zone, df, ztf, zif)
                       THEN [id \in DOMAIN acc \cup {zone.Id} |->
                                IF id = zone.Id THEN zone ELSE acc[id]]
                       ELSE acc)

\* zones() taking a failed List for a List of no zones
zones_SwallowListError(zs, df, ztf, zif, listErr) ==
    LET listZonesResp == List(zs, listErr)
    IN  IF listZonesResp.err # Nil THEN [zones |-> EmptyMap, err |-> Nil]
        ELSE [zones |-> zonesFrom(listZonesResp.DnsZones, df, ztf, zif, 1, EmptyMap),
              err |-> Nil]

\* zones() keeping every listed zone
zones_NoFilter(zs, df, ztf, zif, listErr) == [zones |-> zs, err |-> Nil]

\* YandexProvider.zones: [zones, err]
zones(zs, df, ztf, zif, listErr) ==
    LET listZonesResp == List(zs, listErr)
    IN  IF listZonesResp.err # Nil THEN [zones |-> EmptyMap, err |-> listZonesResp.err]
        ELSE [zones |-> zonesFrom(listZonesResp.DnsZones, df, ztf, zif, 1, EmptyMap),
              err |-> Nil]

endpointToRecordSet(e) ==
    LET targets == IF e.RecordType = "CNAME"
                   THEN [e.Targets EXCEPT ![1] = EnsureTrailingDot(@)]
                   ELSE e.Targets
        \* TTL.IsConfigured
        ttl == IF e.RecordTTL > 0 THEN e.RecordTTL ELSE yandexRecordTTL
    IN  [Name |-> EnsureTrailingDot(e.DNSName), Data |-> targets, Ttl |-> ttl,
         Type |-> e.RecordType]

\* endpointsToRecordSets converting every endpoint
endpointsToRecordSets_Unfiltered(df, endpoints) ==
    [i \in 1..Len(endpoints) |-> endpointToRecordSet(endpoints[i])]

endpointsToRecordSets(df, endpoints) ==
    LET kept == SelectSeq(endpoints, LAMBDA e : DomainFilterMatch(df, e.DNSName))
    IN  [i \in 1..Len(kept) |-> endpointToRecordSet(kept[i])]

\* placeOne putting a record set that no zone owns into the request of the zone
\* the range over the zones begins with
placeOne_UnownedToFirstZone(reqs, mapper, iter, recordSet, field) ==
    LET found == FindZone(mapper, iter, EnsureTrailingDot(recordSet.Name))[1]
        zoneName == IF found = <<>> /\ iter # <<>> THEN iter[1] ELSE found
    IN  IF zoneName # <<>>
        THEN [reqs EXCEPT ![zoneName][field] = Append(@, recordSet)]
        ELSE reqs

\* placeOne with every record set placed among the additions
placeOne_AsAddition(reqs, mapper, iter, recordSet, field) ==
    LET zoneName == FindZone(mapper, iter, EnsureTrailingDot(recordSet.Name))[1]
    IN  IF zoneName # <<>>
        THEN [reqs EXCEPT ![zoneName]["Additions"] = Append(@, recordSet)]
        ELSE reqs

\* the body of the two loops of separateChange: the record set joins the list
\* "field" of the request of the zone FindZone names, if it names one
placeOne(reqs, mapper, iter, recordSet, field) ==
    LET zoneName == FindZone(mapper, iter, EnsureTrailingDot(recordSet.Name))[1]
    IN  IF zoneName # <<>>
        THEN [reqs EXCEPT ![zoneName][field] = Append(@, recordSet)]
        ELSE reqs

RECURSIVE placeAll(_, _, _, _, _, _)
placeAll(reqs, mapper, iter, list, field, i) ==
    IF i > Len(list) THEN reqs
    ELSE placeAll(placeOne(reqs, mapper, iter, list[i], field),
                  mapper, iter, list, field, i + 1)

\* separateChange without its last loop, which drops the empty requests
separateChange_KeepEmpty(zs, change, iter) ==
    LET mapper == [id \in {zs[k].Id : k \in DOMAIN zs} |->
                      zs[CHOOSE k \in DOMAIN zs : zs[k].Id = id].Zone]
        empty == [id \in DOMAIN mapper |->
                     [DnsZoneId |-> id, Additions |-> <<>>, Deletions |-> <<>>]]
        withAdditions == placeAll(empty, mapper, iter, change.Additions, "Additions", 1)
    IN  placeAll(withAdditions, mapper, iter, change.Deletions, "Deletions", 1)

\* separateChange; iter is the order in which FindZone ranges over the zones
separateChange(zs, change, iter) ==
    LET mapper == [id \in {zs[k].Id : k \in DOMAIN zs} |->
                      zs[CHOOSE k \in DOMAIN zs : zs[k].Id = id].Zone]
        empty == [id \in DOMAIN mapper |->
                     [DnsZoneId |-> id, Additions |-> <<>>, Deletions |-> <<>>]]
        withAdditions == placeAll(empty, mapper, iter, change.Additions, "Additions", 1)
        withBoth == placeAll(withAdditions, mapper, iter, change.Deletions, "Deletions", 1)
    IN  Restrict(withBoth, {id \in DOMAIN withBoth :
                               ~(/\ Len(withBoth[id].Additions) = 0
                                 /\ Len(withBoth[id].Deletions) = 0)})

\* submitOne handing the request to the backend in dry-run mode too, keeping the
\* error and dropping the change
submitOne_ValidateInDryRun(rs, dry, request) ==
    LET r == UpdateRecordSets(rs, request)
    IN  IF dry THEN [recordSets |-> rs, called |-> FALSE, err |-> r.err]
        ELSE [recordSets |-> r.recordSets, called |-> TRUE, err |-> r.err]

\* submitOne without the dry-run test
submitOne_IgnoreDryRun(rs, dry, request) ==
    LET r == UpdateRecordSets(rs, request)
    IN  [recordSets |-> r.recordSets, called |-> TRUE, err |-> r.err]

\* the body of the request loop of ApplyChanges: nothing in dry-run mode, else
\* one UpdateRecordSets call
submitOne(rs, dry, request) ==
    IF dry THEN [recordSets |-> rs, called |-> FALSE, err |-> Nil]
    ELSE LET r == UpdateRecordSets(rs, request)
         IN  [recordSets |-> r.recordSets, called |-> TRUE, err |-> r.err]

\* submitAll going on to the next request after a failed call and returning the
\* last error
RECURSIVE submitAll_ContinueOnError(_, _, _, _, _, _)
submitAll_ContinueOnError(rs, dry, separatedChanges, order, i, made) ==
    IF i > Len(order)
    THEN [recordSets |-> rs, calls |-> made,
          err |-> IF made = <<>> THEN Nil ELSE made[Len(made)].err]
    ELSE LET request == separatedChanges[order[i]]
             r == submitOne(rs, dry, request)
             now == IF r.called
                    THEN Append(made, [request |-> request, err |-> r.err])
                    ELSE made
         IN  submitAll_ContinueOnError(r.recordSets, dry, separatedChanges, order,
                                       i + 1, now)

\* the request loop of ApplyChanges over separatedChanges in the order "order":
\* [recordSets, calls, err]
RECURSIVE submitAll(_, _, _, _, _, _)
submitAll(rs, dry, separatedChanges, order, i, made) ==
    IF i > Len(order) THEN [recordSets |-> rs, calls |-> made, err |-> Nil]
    ELSE LET request == separatedChanges[order[i]]
             r == submitOne(rs, dry, request)
             now == IF r.called
                    THEN Append(made, [request |-> request, err |-> r.err])
                    ELSE made
         IN  IF r.err # Nil
             THEN [recordSets |-> r.recordSets, calls |-> now, err |-> r.err]
             ELSE submitAll(r.recordSets, dry, separatedChanges, order, i + 1, now)

\* endpoint.NewEndpointWithTTL: the name and the targets lose their trailing dot
NewEndpointWithTTL(dnsName, recordType, ttl, targets) ==
    [DNSName |-> TrimSuffix(dnsName, Dot), RecordType |-> recordType, RecordTTL |-> ttl,
     Targets |-> [i \in 1..Len(targets) |-> TrimSuffix(targets[i], Dot)]]

\* endpointsOfZone without the test of the record type
endpointsOfZone_AllTypes(records) ==
    [i \in 1..Len(records) |->
        NewEndpointWithTTL(records[i].Name, records[i].Type, records[i].Ttl,
                           records[i].Data)]

\* the endpoints Records appends for one zone
endpointsOfZone(records) ==
    LET supported == SelectSeq(records, LAMBDA record : SupportedRecordType(record.Type))
    IN  [i \in 1..Len(supported) |->
            NewEndpointWithTTL(supported[i].Name, supported[i].Type, supported[i].Ttl,
                               supported[i].Data)]

\* the loop of Records over the zones in the order "order": [endpoints, err]
RECURSIVE recordsFrom(_, _, _, _, _)
recordsFrom(zs, rs, order, i, endpoints) ==
    IF i > Len(order) THEN [endpoints |-> endpoints, err |-> Nil]
    ELSE LET records == ListRecordSets(zs, rs, order[i])
         IN  IF records.err # Nil THEN [endpoints |-> <<>>, err |-> records.err]
             ELSE recordsFrom(zs, rs, order, i + 1,
                              endpoints \o endpointsOfZone(records.RecordSets))

\* YandexProvider.Records, ranging over the zones in some order: [endpoints, err]
Records(zs, rs, df, ztf, zif, listErr) ==
    LET z == zones(zs, df, ztf, zif, listErr)
    IN  IF z.err # Nil THEN [endpoints |-> <<>>, err |-> z.err]
        ELSE recordsFrom(zs, rs, SeqOf(DOMAIN z.zones), 1, <<>>)

\* buildUpdateRequest with the two halves of an update taken for each other
buildUpdateRequest_UpdateSwapped(df, ch) ==
    [Additions |-> endpointsToRecordSets(df, ch.Create)
                       \o endpointsToRecordSets(df, ch.UpdateOld),
     Deletions |-> endpointsToRecordSets(df, ch.Delete)
                       \o endpointsToRecordSets(df, ch.UpdateNew)]

\* the update ApplyChanges builds from the changes
buildUpdateRequest(df, ch) ==
    [Additions |-> endpointsToRecordSets(df, ch.Create)
                       \o endpointsToRecordSets(df, ch.UpdateNew),
     Deletions |-> endpointsToRecordSets(df, ch.Delete)
                       \o endpointsToRecordSets(df, ch.UpdateOld)]

(***************************************************************************)
(* The bounded universe                                                    *)
(***************************************************************************)
\* the most endpoints one plan.Changes carries, over its four lists
MaxChanges == 2

firstZone == [Id |-> <<"z", "1">>, Name |-> <<"n", "1">>,
              Zone |-> <<"a", ".">>, PublicVisibility |-> TRUE]
secondZone == [Id |-> <<"z", "2">>, Name |-> <<"n", "2">>,
               Zone |-> <<"b", ".", "a", ".">>, PublicVisibility |-> FALSE]

\* a zone whose Name is the Id of the second zone
thirdZone == [Id |-> <<"y", "1">>, Name |-> <<"z", "2">>,
              Zone |-> <<"c", ".">>, PublicVisibility |-> TRUE]

defaultDnsZones == <<firstZone, secondZone>>
emptyDnsZones == <<>>

firstRecord == <<"x", ".", "a">>
secondRecord == <<"x", ".", "b", ".", "a", ".">>

\* the endpoints changes are made of: an A record of the first zone with its TTL
\* and its targets varied, and a CNAME record of the second zone
Endpoints ==
    [DNSName : {firstRecord}, RecordType : {"A"}, RecordTTL : {0, yandexRecordTTL + 1},
     Targets : {<<<<"1">>>>}]
    \cup
    [DNSName : {firstRecord}, RecordType : {"A"}, RecordTTL : {0},
     Targets : {<<<<"1">>, <<"2">>>>, <<<<"1">>, <<"1">>>>}]
    \cup
    [DNSName : {secondRecord}, RecordType : {"CNAME"}, RecordTTL : {0},
     Targets : {<<<<"t">>>>}]

SeqsOfLen(S, n) == [1..n -> S]

\* every plan.Changes of at most MaxChanges endpoints
AllChanges ==
    UNION {[Create : SeqsOfLen(Endpoints, n[1]), UpdateOld : SeqsOfLen(Endpoints, n[2]),
            UpdateNew : SeqsOfLen(Endpoints, n[3]), Delete : SeqsOfLen(Endpoints, n[4])] :
           n \in {m \in [1..4 -> 0..MaxChanges] : m[1] + m[2] + m[3] + m[4] <= MaxChanges}}

NoChanges == [Create |-> <<>>, UpdateOld |-> <<>>, UpdateNew |-> <<>>, Delete |-> <<>>]

\* the record sets a mock is constructed with: each in the zone that owns its name
DefaultRecords ==
    {[RecordSet |-> endpointToRecordSet(e),
      ZoneID |-> IF e.DNSName = firstRecord THEN firstZone.Id ELSE secondZone.Id] :
     e \in Endpoints}

\* the settings of the providers that apply changes
ApplyConfigs ==
    {[domain |-> <<<<>>>>, zoneType |-> "", zoneIDs |-> <<>>, dryRun |-> FALSE],
     [domain |-> <<<<>>>>, zoneType |-> "", zoneIDs |-> <<>>, dryRun |-> TRUE],
     [domain |-> <<<<>>>>, zoneType |-> "public", zoneIDs |-> <<>>, dryRun |-> FALSE],
     [domain |-> <<<<>>>>, zoneType |-> "private", zoneIDs |-> <<>>, dryRun |-> FALSE],
     [domain |-> <<<<"b", ".", "a", ".">>>>, zoneType |-> "", zoneIDs |-> <<>>,
      dryRun |-> FALSE],
     [domain |-> <<<<>>>>, zoneType |-> "", zoneIDs |-> <<<<"n", "2">>>>, dryRun |-> TRUE]}

(***************************************************************************)
(* The state machine                                                       *)
(***************************************************************************)
NoPrevious == <<>>

\* no operation is in progress and the locals of the last one are gone
Idle ==
    /\ op = "idle"
    /\ changes = NoChanges
    /\ before = recordSets
    /\ matched = EmptyMap
    /\ updateRequest = [Additions |-> <<>>, Deletions |-> <<>>]
    /\ separated = EmptyMap
    /\ listCalls = <<>>
    /\ calls = <<>>
    /\ err = Nil
    /\ previous = NoPrevious
    /\ args = <<>>
    /\ result = <<>>

\* newMockYandexProviderWithDefaultZonesAndRecordSets
NewProvider(defaultZones, defaultRecords, config) ==
    /\ dnsZones = newMockZones(defaultZones)
    /\ recordSets = newMockRecordSets(defaultZones, defaultRecords)
    /\ dryRun = config.dryRun
    /\ domainFilter = NewDomainFilter(config.domain)
    /\ zoneTypeFilter = config.zoneType
    /\ zoneIDFilter = config.zoneIDs
    /\ Idle

Init ==
    \E config \in ApplyConfigs :
        \/ \E defaults \in SUBSET DefaultRecords :
               NewProvider(defaultDnsZones, SeqOf(defaults), config)
        \/ NewProvider(emptyDnsZones, <<>>, config)

\* what a call of YandexProvider.ApplyChanges(changes) does, against a client
\* whose List returns listErr
ApplyChangesCall(ch, listErr) ==
    LET request == buildUpdateRequest(domainFilter, ch)
        z == zones(dnsZones, domainFilter, zoneTypeFilter, zoneIDFilter, listErr)
    IN  /\ op' = "ApplyChanges"
        /\ changes' = ch
        /\ before' = recordSets
        /\ updateRequest' = request
        /\ listCalls' = <<listErr>>
        /\ matched' = z.zones
        /\ IF z.err # Nil
           THEN /\ separated' = EmptyMap
                /\ calls' = <<>>
                /\ err' = z.err
                /\ recordSets' = recordSets
           ELSE \E iter \in Perms(DOMAIN z.zones) :
                    LET separatedChanges == separateChange(z.zones, request, iter)
                    IN  \E order \in Perms(DOMAIN separatedChanges) :
                            LET done == submitAll(recordSets, dryRun, separatedChanges,
                                                  order, 1, <<>>)
                            IN  /\ separated' = separatedChanges
                                /\ calls' = done.calls
                                /\ err' = done.err
                                /\ recordSets' = done.recordSets
        /\ UNCHANGED <<dnsZones, dryRun, domainFilter, zoneTypeFilter, zoneIDFilter,
                       args, result>>

\* YandexProvider.ApplyChanges(changes), called when nothing is in progress
ApplyChanges(ch, listErr) ==
    /\ op = "idle"
    /\ ApplyChangesCall(ch, listErr)
    /\ UNCHANGED previous

Apply == \E ch \in AllChanges : ApplyChanges(ch, Nil)

\* the operation has returned to its caller: its locals and its result are dropped
Return ==
    /\ op # "idle"
    /\ op' = "idle"
    /\ changes' = NoChanges
    /\ before' = recordSets
    /\ matched' = EmptyMap
    /\ updateRequest' = [Additions |-> <<>>, Deletions |-> <<>>]
    /\ separated' = EmptyMap
    /\ listCalls' = <<>>
    /\ calls' = <<>>
    /\ err' = Nil
    /\ previous' = NoPrevious
    /\ args' = <<>>
    /\ result' = <<>>
    /\ UNCHANGED <<dnsZones, recordSets, dryRun, domainFilter, zoneTypeFilter,
                   zoneIDFilter>>

Next == Apply \/ Return

Spec == Init /\ [][Next]_vars

(***************************************************************************)
(* zones() alone, over a wider choice of zones and filters                 *)
(***************************************************************************)
ZoneLists == {emptyDnsZones, defaultDnsZones, <<firstZone, secondZone, thirdZone>>}

DomainFilters ==
    {<<>>, <<<<>>>>, <<<<"a", ".">>>>, <<<<"B", ".", "a">>>>, <<<<".", "a">>>>,
     <<<<"c">>, <<"b", ".", "a", ".">>>>}

ZoneTypes == {"", "public", "private", "hidden"}

ZoneIDFilters ==
    {<<>>, <<<<>>>>, <<<<"z", "1">>>>, <<<<"n", "2">>>>, <<<<"z", "2">>>>, <<<<"1">>>>,
     <<<<"q">>>>}

InitZones ==
    \E defaultZones \in ZoneLists, domain \in DomainFilters, zoneType \in ZoneTypes,
       zoneIDs \in ZoneIDFilters :
        NewProvider(defaultZones, <<>>,
                    [domain |-> domain, zoneType |-> zoneType, zoneIDs |-> zoneIDs,
                     dryRun |-> FALSE])

\* YandexProvider.zones() against a client whose List returns listErr
CallZones(listErr) ==
    LET z == zones(dnsZones, domainFilter, zoneTypeFilter, zoneIDFilter, listErr)
    IN  /\ op = "idle"
        /\ op' = "zones"
        /\ listCalls' = <<listErr>>
        /\ matched' = z.zones
        /\ err' = z.err
        /\ UNCHANGED <<dnsZones, recordSets, dryRun, domainFilter, zoneTypeFilter,
                       zoneIDFilter, changes, before, updateRequest, separated, calls,
                       previous, args, result>>

ListZones == CallZones(Nil)

NextZones == ListZones \/ Return

SpecZones == InitZones /\ [][NextZones]_vars

(***************************************************************************)
(* equalRecordSetsData alone, over every pair of short value lists         *)
(***************************************************************************)
\* the most values one list of data holds
MaxData == 2

DataValues == {<<"1">>, <<"2">>, <<"t">>}

DataLists == UNION {SeqsOfLen(DataValues, n) : n \in 0..MaxData}

InitEqual ==
    NewProvider(emptyDnsZones, <<>>,
                [domain |-> <<>>, zoneType |-> "", zoneIDs |-> <<>>, dryRun |-> FALSE])

\* equalRecordSetsData(first, second)
CallEqualRecordSetsData(first, second) ==
    /\ op = "idle"
    /\ op' = "equalRecordSetsData"
    /\ args' = <<first, second>>
    /\ result' = equalRecordSetsData(first, second)
    /\ UNCHANGED <<dnsZones, recordSets, dryRun, domainFilter, zoneTypeFilter,
                   zoneIDFilter, changes, before, matched, updateRequest, separated,
                   listCalls, calls, err, previous>>

CompareData == \E first, second \in DataLists : CallEqualRecordSetsData(first, second)

NextEqual == CompareData \/ Return

SpecEqual == InitEqual /\ [][NextEqual]_vars

(***************************************************************************)
(* Records alone, over backends that hold record sets of unsupported types *)
(***************************************************************************)
\* the record sets the backends are built from, some of types the framework does
\* not support, some with values that end with a dot
StoredRecords ==
    {[RecordSet |-> [Name |-> <<"x", ".", "a", ".">>, Type |-> "A",
                     Ttl |-> yandexRecordTTL, Data |-> <<<<"1">>>>],
      ZoneID |-> firstZone.Id],
     [RecordSet |-> [Name |-> <<"x", ".", "a", ".">>, Type |-> "MX",
                     Ttl |-> yandexRecordTTL, Data |-> <<<<"t", ".">>>>],
      ZoneID |-> firstZone.Id],
     [RecordSet |-> [Name |-> <<"x", ".", "a", ".">>, Type |-> "TXT",
                     Ttl |-> yandexRecordTTL + 1, Data |-> <<<<"t", ".">>, <<"1">>>>],
      ZoneID |-> firstZone.Id],
     [RecordSet |-> [Name |-> secondRecord, Type |-> "CNAME",
                     Ttl |-> yandexRecordTTL, Data |-> <<<<"t", ".">>>>],
      ZoneID |-> secondZone.Id],
     [RecordSet |-> [Name |-> secondRecord, Type |-> "A",
                     Ttl |-> yandexRecordTTL, Data |-> <<<<"1">>, <<"2">>>>],
      ZoneID |-> secondZone.Id],
     [RecordSet |-> [Name |-> secondRecord, Type |-> "SPF",
                     Ttl |-> yandexRecordTTL, Data |-> <<<<"t">>>>],
      ZoneID |-> secondZone.Id]}

InitRecords ==
    \E config \in ApplyConfigs :
        \/ \E defaults \in SUBSET StoredRecords :
               NewProvider(defaultDnsZones, SeqOf(defaults), config)
        \/ NewProvider(emptyDnsZones, <<>>, config)

\* YandexProvider.Records() against a client whose List returns listErr; the zones
\* are ranged over in some order
CallRecords(listErr) ==
    LET z == zones(dnsZones, domainFilter, zoneTypeFilter, zoneIDFilter, listErr)
    IN  /\ op = "idle"
        /\ op' = "Records"
        /\ listCalls' = <<listErr>>
        /\ matched' = z.zones
        /\ IF z.err # Nil
           THEN /\ result' = <<>>
                /\ err' = z.err
           ELSE \E order \in Perms(DOMAIN z.zones) :
                    LET r == recordsFrom(dnsZones, recordSets, order, 1, <<>>)
                    IN  /\ result' = r.endpoints
                        /\ err' = r.err
        /\ UNCHANGED <<dnsZones, recordSets, dryRun, domainFilter, zoneTypeFilter,
                       zoneIDFilter, changes, before, updateRequest, separated, calls,
                       previous, args>>

ReadRecords == CallRecords(Nil)

NextRecords == ReadRecords \/ Return

SpecRecords == InitRecords /\ [][NextRecords]_vars

(***************************************************************************)
(* The two conversions alone: a record set to an endpoint and back         *)
(***************************************************************************)
\* the record sets converted: names with and without their closing dot, TTLs set
\* and unset, values that are addresses, host names and dotted host names
ConvertedRecordSets ==
    [Name : {firstRecord, secondRecord},
     Type : {"A"},
     Ttl : {0, yandexRecordTTL, yandexRecordTTL + 1},
     Data : UNION {SeqsOfLen({<<"1">>, <<"2">>}, n) : n \in 1..MaxData}]
    \cup
    [Name : {firstRecord, secondRecord},
     Type : {"CNAME", "TXT", "NS", "MX"},
     Ttl : {0, yandexRecordTTL, yandexRecordTTL + 1},
     Data : UNION {SeqsOfLen({<<"1">>, <<"t">>, <<"t", ".">>}, n) : n \in 1..MaxData}]

InitRoundTrip ==
    \E domain \in {<<<<>>>>, <<<<"a", ".">>>>, <<<<"b", ".", "a", ".">>>>} :
        NewProvider(emptyDnsZones, <<>>,
                    [domain |-> domain, zoneType |-> "", zoneIDs |-> <<>>,
                     dryRun |-> FALSE])

\* the record set goes through the loop body of Records and the endpoints it
\* gives through endpointsToRecordSets, as recordsTest does
CallRoundTrip(recordSet) ==
    /\ op = "idle"
    /\ op' = "roundTrip"
    /\ args' = <<recordSet>>
    /\ result' = endpointsToRecordSets(domainFilter, endpointsOfZone(<<recordSet>>))
    /\ UNCHANGED <<dnsZones, recordSets, dryRun, domainFilter, zoneTypeFilter,
                   zoneIDFilter, changes, before, matched, updateRequest, separated,
                   listCalls, calls, err, previous>>

RoundTrip == \E recordSet \in ConvertedRecordSets : CallRoundTrip(recordSet)

NextRoundTrip == RoundTrip \/ Return

SpecRoundTrip == InitRoundTrip /\ [][NextRoundTrip]_vars

(***************************************************************************)
(* Two ApplyChanges calls in a row, each creating or deleting one endpoint *)
(***************************************************************************)
\* the changes that create one endpoint and the changes that delete one
SingleChanges ==
    {[NoChanges EXCEPT !.Create = <<e>>] : e \in Endpoints}
    \cup {[NoChanges EXCEPT !.Delete = <<e>>] : e \in Endpoints}

\* YandexProvider.ApplyChanges(changes), called right after an ApplyChanges call
\* returned
ApplyChangesAgain(ch, listErr) ==
    /\ op = "ApplyChanges"
    /\ previous = NoPrevious
    /\ previous' = [changes |-> changes, before |-> before, err |-> err]
    /\ ApplyChangesCall(ch, listErr)

ApplyOne == \E ch \in SingleChanges : ApplyChanges(ch, Nil)

ApplyAnother == \E ch \in SingleChanges : ApplyChangesAgain(ch, Nil)

NextPair == ApplyOne \/ ApplyAnother \/ Return

SpecPair == Init /\ [][NextPair]_vars

(***************************************************************************)
(* ApplyChanges against a client whose List call may fail                  *)
(***************************************************************************)
ApplyListing == \E ch \in AllChanges : ApplyChanges(ch, Nil)

ApplyNotListing == \E ch \in AllChanges : ApplyChanges(ch, ListFailed)

NextList == ApplyListing \/ ApplyNotListing \/ Return

SpecList == Init /\ [][NextList]_vars

(***************************************************************************)
(* UpdateRecordSets alone, on zones that hold record sets of two types     *)
(***************************************************************************)
\* the most additions, and the most deletions, of a request handed to the
\* backend on its own
MaxRequest == 2

\* record sets of one name: two types, each with two TTLs
UpdatedRecordSets ==
    [Name : {<<"x", ".", "a", ".">>}, Type : {"A", "TXT"},
     Ttl : {yandexRecordTTL, yandexRecordTTL + 1}, Data : {<<<<"1">>>>}]

UpdateRequests ==
    [DnsZoneId : {firstZone.Id},
     Deletions : UNION {SeqsOfLen(UpdatedRecordSets, n) : n \in 0..MaxRequest},
     Additions : UNION {SeqsOfLen(UpdatedRecordSets, n) : n \in 0..MaxRequest}]

InitUpdate ==
    \E defaults \in SUBSET UpdatedRecordSets :
        NewProvider(defaultDnsZones,
                    SeqOf({[RecordSet |-> r, ZoneID |-> firstZone.Id] : r \in defaults}),
                    [domain |-> <<>>, zoneType |-> "", zoneIDs |-> <<>>,
                     dryRun |-> FALSE])

\* mockDNSZoneClient.UpdateRecordSets(in)
CallUpdateRecordSets(in) ==
    LET r == UpdateRecordSets(recordSets, in)
    IN  /\ op = "idle"
        /\ op' = "UpdateRecordSets"
        /\ args' = <<in>>
        /\ before' = recordSets
        /\ recordSets' = r.recordSets
        /\ err' = r.err
        /\ UNCHANGED <<dnsZones, dryRun, domainFilter, zoneTypeFilter, zoneIDFilter,
                       changes, matched, updateRequest, separated, listCalls, calls,
                       previous, result>>

Update == \E in \in UpdateRequests : CallUpdateRecordSets(in)

NextUpdate == Update \/ Return

SpecUpdate == InitUpdate /\ [][NextUpdate]_vars

(***************************************************************************)
(* Properties                                                              *)
(***************************************************************************)
Applied == op = "ApplyChanges"

\* a zone passes the three filters of the provider
PassesFilters(zone) ==
    /\ DomainFilterMatch(domainFilter, zone.Zone)
    /\ ZoneTypeFilterMatch(zoneTypeFilter, IF zone.PublicVisibility THEN "public" ELSE "private")
    /\ \/ ZoneIDFilterMatch(zoneIDFilter, zone.Id)
       \/ ZoneIDFilterMatch(zoneIDFilter, zone.Name)

\* the name belongs to the zone: it equals the zone's domain or ends with "." + domain
BelongsTo(name, zone) == name = zone.Zone \/ HasSuffix(name, Dot \o zone.Zone)

\* how often x occurs in the list
CountIn(list, x) == Cardinality({i \in 1..Len(list) : list[i] = x})

\* C1: with dryRun set, ApplyChanges makes no UpdateRecordSets call and the record
\* sets of every zone are after the call what they were before it
C1_DryRunMutatesNothing ==
    (Applied /\ dryRun) => (calls = <<>> /\ recordSets = before)

\* a dry run of changes that a real run would have applied to the backend
C1_Witness ==
    /\ Applied /\ dryRun
    /\ \E id \in DOMAIN separated :
           LET r == UpdateRecordSets(recordSets, separated[id])
           IN  r.err = Nil /\ r.recordSets # recordSets

\* C2: zones() returns, keyed by zone Id, exactly the listed zones that pass the
\* domain filter, the zone-type filter and, by their Id or by their Name, the
\* zone-ID filter
C2_ZonesAreThoseThatPass ==
    op = "zones" =>
        /\ err = Nil
        /\ DOMAIN matched = {id \in DOMAIN dnsZones : PassesFilters(dnsZones[id])}
        /\ \A id \in DOMAIN matched : matched[id] = dnsZones[id] /\ matched[id].Id = id

\* under three filters that each reject a zone, a zone is returned that passes
\* the zone-ID filter by its Name alone
C2_Witness ==
    /\ op = "zones"
    /\ \E id \in DOMAIN matched : ~ZoneIDFilterMatch(zoneIDFilter, matched[id].Id)
    /\ \E id \in DOMAIN dnsZones : ~DomainFilterMatch(domainFilter, dnsZones[id].Zone)
    /\ \E id \in DOMAIN dnsZones : ~dnsZones[id].PublicVisibility /\ zoneTypeFilter = "public"
    /\ \E id \in DOMAIN dnsZones :
           /\ ~ZoneIDFilterMatch(zoneIDFilter, dnsZones[id].Id)
           /\ ~ZoneIDFilterMatch(zoneIDFilter, dnsZones[id].Name)

\* C3: no UpdateRecordSets call carries the id of a zone that fails a filter, and
\* the record sets of every such zone are unchanged by ApplyChanges
C3_FilteredZonesUntouched ==
    Applied =>
        /\ \A i \in 1..Len(calls) :
               /\ calls[i].request.DnsZoneId \in DOMAIN dnsZones
               /\ PassesFilters(dnsZones[calls[i].request.DnsZoneId])
        /\ \A id \in DOMAIN dnsZones :
               ~PassesFilters(dnsZones[id]) => recordSets[id] = before[id]

\* changes were applied although they name a record of a zone that fails a filter
C3_Witness ==
    /\ Applied
    /\ \E i \in 1..Len(calls) : calls[i].err = Nil /\ recordSets # before
    /\ \E id \in DOMAIN dnsZones :
           /\ ~PassesFilters(dnsZones[id])
           /\ \E r \in Range(updateRequest.Additions) \cup Range(updateRequest.Deletions) :
                  BelongsTo(r.Name, dnsZones[id])

\* the matched zones the name belongs to whose domain is the longest
Owners(name) ==
    {id \in DOMAIN matched :
        /\ BelongsTo(name, matched[id])
        /\ \A other \in DOMAIN matched :
               BelongsTo(name, matched[other])
                   => Len(matched[other].Zone) <= Len(matched[id].Zone)}

\* the list "field" of the request separateChange made for the zone, if any
Placed(id, field) == IF id \in DOMAIN separated THEN separated[id][field] ELSE <<>>

\* C4: every addition and every deletion whose name belongs to a matched zone is
\* in the request of the matched zone with the longest such domain, as often as
\* the update holds it, in no other request, and under its own kind
C4_PlacedOnceInLongestSuffixZone ==
    Applied =>
        \A r \in Range(updateRequest.Additions) \cup Range(updateRequest.Deletions) :
            Owners(r.Name) # {} =>
                \E owner \in Owners(r.Name) :
                    \A id \in DOMAIN matched :
                        /\ CountIn(Placed(id, "Additions"), r)
                               = IF id = owner THEN CountIn(updateRequest.Additions, r) ELSE 0
                        /\ CountIn(Placed(id, "Deletions"), r)
                               = IF id = owner THEN CountIn(updateRequest.Deletions, r) ELSE 0

\* a deletion whose name belongs to two matched zones, with an addition elsewhere
C4_Witness ==
    /\ Applied
    /\ \E d \in Range(updateRequest.Deletions) :
           /\ Cardinality({id \in DOMAIN matched : BelongsTo(d.Name, matched[id])}) = 2
           /\ Cardinality(Owners(d.Name)) = 1
           /\ d \notin Range(updateRequest.Additions)
    /\ updateRequest.Additions # <<>>
    /\ Cardinality(DOMAIN separated) = 2

\* C5: one ApplyChanges makes at most one UpdateRecordSets call per zone, each
\* call carries the id of the zone its record sets belong to, and no call is made
\* for a zone with neither additions nor deletions
C5_OneCallPerZoneWithRecords ==
    Applied =>
        /\ \A i, j \in 1..Len(calls) :
               calls[i].request.DnsZoneId = calls[j].request.DnsZoneId => i = j
        /\ \A i \in 1..Len(calls) :
               LET request == calls[i].request
               IN  /\ request.DnsZoneId \in DOMAIN dnsZones
                   /\ \A r \in Range(request.Additions) \cup Range(request.Deletions) :
                          BelongsTo(r.Name, dnsZones[request.DnsZoneId])
                   /\ Len(request.Additions) + Len(request.Deletions) > 0

\* two zones were updated while a third matched zone could have been, or one was
\* updated while another matched zone had nothing to change
C5_Witness ==
    /\ Applied
    /\ Len(calls) >= 1
    /\ Cardinality(DOMAIN matched) = 2
    /\ \/ Len(calls) = 2
       \/ Cardinality(DOMAIN separated) = 1

\* C6: the update's additions are the record sets of Create followed by those of
\* UpdateNew, its deletions those of Delete followed by those of UpdateOld; so
\* the old half of an update is placed as a deletion and the new half as an addition
C6_UpdateIsDeletePlusAdd ==
    Applied =>
        /\ updateRequest.Additions
               = endpointsToRecordSets(domainFilter, changes.Create)
                     \o endpointsToRecordSets(domainFilter, changes.UpdateNew)
        /\ updateRequest.Deletions
               = endpointsToRecordSets(domainFilter, changes.Delete)
                     \o endpointsToRecordSets(domainFilter, changes.UpdateOld)
        /\ \A r \in Range(endpointsToRecordSets(domainFilter, changes.UpdateOld)) :
               Owners(r.Name) # {} =>
                   \E id \in Owners(r.Name) : r \in Range(Placed(id, "Deletions"))
        /\ \A r \in Range(endpointsToRecordSets(domainFilter, changes.UpdateNew)) :
               Owners(r.Name) # {} =>
                   \E id \in Owners(r.Name) : r \in Range(Placed(id, "Additions"))

\* an update of a stored record set to another TTL or other data, submitted
C6_Witness ==
    /\ Applied
    /\ Len(changes.UpdateOld) = 1 /\ Len(changes.UpdateNew) = 1
    /\ changes.UpdateOld # changes.UpdateNew
    /\ Len(calls) = 1
    /\ calls[1].request.Deletions # <<>> /\ calls[1].request.Additions # <<>>
    /\ err = Nil /\ recordSets # before

\* C7: a failed UpdateRecordSets call is the last call of the invocation, and
\* ApplyChanges returns the error of that call as it is
C7_FirstErrorEndsApply ==
    Applied =>
        \A i \in 1..Len(calls) :
            calls[i].err # Nil => (i = Len(calls) /\ err = calls[i].err)

\* the first of two requests failed and the second was not attempted
C7_Witness ==
    /\ Applied
    /\ Cardinality(DOMAIN separated) = 2
    /\ Len(calls) = 1
    /\ calls[1].err # Nil /\ err = calls[1].err

\* the endpoints a Records call returns for the backend holding rs
RecordsOf(rs) ==
    Range(Records(dnsZones, rs, domainFilter, zoneTypeFilter, zoneIDFilter, Nil).endpoints)

\* C8 as claimed: whenever ApplyChanges returns an error, a following Records call
\* returns what it returned before the ApplyChanges call
C8_FailedApplyChangesNothing ==
    (Applied /\ err # Nil) => RecordsOf(recordSets) = RecordsOf(before)

\* the zones an UpdateRecordSets call of the last ApplyChanges was made for
CalledZones == {calls[i].request.DnsZoneId : i \in 1..Len(calls)}

\* C8 amended: whenever ApplyChanges returns an error, every zone no call was made
\* for holds what it held before, and the zone of the failed call holds nothing
\* it did not hold before; what earlier calls applied, and the deletions of a
\* request whose additions were rejected, stay applied
C8_FailedApplyKeepsUncalledZones ==
    (Applied /\ err # Nil) =>
        /\ \A id \in DOMAIN recordSets \ CalledZones : recordSets[id] = before[id]
        /\ \A i \in 1..Len(calls) :
               calls[i].err # Nil =>
                   LET id == calls[i].request.DnsZoneId
                   IN  \A k \in DOMAIN recordSets[id] :
                           k \in DOMAIN before[id] /\ recordSets[id][k] = before[id][k]

\* a failed ApplyChanges after which Records returns something else than before,
\* while a zone no call was made for holds record sets
C8_Witness ==
    /\ Applied /\ err # Nil
    /\ RecordsOf(recordSets) # RecordsOf(before)
    /\ \E id \in DOMAIN recordSets \ CalledZones : DOMAIN recordSets[id] # {}

\* the two record sets differ in their TTL or in their set of values
Differs(r, stored) == r.Ttl # stored.Ttl \/ Range(r.Data) # Range(stored.Data)

\* the zone as the backend finds it when it checks the additions of the request
AfterDeletions(zone, request) ==
    Restrict(zone, DOMAIN zone \ {getRecordSetKey(request.Deletions[i]) :
                                     i \in 1..Len(request.Deletions)})

\* C9: without dry-run, ApplyChanges returns an error when a request deletes a
\* record set that its zone lacks or holds with another TTL or other data, or adds
\* one whose (name, type) its zone holds (once the deletions of the request are
\* gone) with another TTL or other data
C9_ConflictsAreErrors ==
    (Applied /\ ~dryRun) =>
        \A id \in DOMAIN separated :
            LET request == separated[id]
                zone == before[id]
                left == AfterDeletions(zone, request)
                badDeletion(d) ==
                    \/ getRecordSetKey(d) \notin DOMAIN zone
                    \/ Differs(d, zone[getRecordSetKey(d)])
                badAddition(a) ==
                    /\ getRecordSetKey(a) \in DOMAIN left
                    /\ Differs(a, left[getRecordSetKey(a)])
            IN  (\/ \E d \in Range(request.Deletions) : badDeletion(d)
                 \/ \E a \in Range(request.Additions) : badAddition(a))
                    => err # Nil

\* C10: every zone of the backend holds at most one record set for each pair
\* (name, type), whatever was applied and whether it failed
C10_OneRecordSetPerNameAndType ==
    \A id \in DOMAIN recordSets :
        \A k1, k2 \in DOMAIN recordSets[id] :
            (/\ recordSets[id][k1].Name = recordSets[id][k2].Name
             /\ recordSets[id][k1].Type = recordSets[id][k2].Type) => k1 = k2

\* a zone holding two record sets was sent an addition for a pair it holds with
\* another TTL or other data
C10_Witness ==
    /\ Applied
    /\ \E i \in 1..Len(calls) :
           LET id == calls[i].request.DnsZoneId
           IN  /\ Cardinality(DOMAIN recordSets[id]) >= 2
               /\ \E a \in Range(calls[i].request.Additions) :
                      /\ getRecordSetKey(a) \in DOMAIN recordSets[id]
                      /\ recordSets[id][getRecordSetKey(a)] # a

\* C11: equalRecordSetsData(first, second) is true exactly when the two lists hold
\* the same set of values, and swapping the two arguments gives the same result
C11_DataEqualityIsSetEquality ==
    op = "equalRecordSetsData" =>
        /\ result = (Range(args[1]) = Range(args[2]))
        /\ result = equalRecordSetsData(args[2], args[1])

\* the endpoint carries the name, the type, the TTL and the data of the record
\* set; a name or a value with and without its closing dot are the same
Carries(e, r) ==
    /\ TrimSuffix(e.DNSName, Dot) = TrimSuffix(r.Name, Dot)
    /\ e.RecordType = r.Type
    /\ e.RecordTTL = r.Ttl
    /\ Len(e.Targets) = Len(r.Data)
    /\ \A i \in 1..Len(r.Data) : TrimSuffix(e.Targets[i], Dot) = TrimSuffix(r.Data[i], Dot)

\* the record sets of supported types held in zones that pass the filters, as
\* pairs <<zone id, key>>
Readable ==
    {p \in UNION {{<<id, k>> : k \in DOMAIN recordSets[id]} : id \in DOMAIN recordSets} :
        /\ PassesFilters(dnsZones[p[1]])
        /\ recordSets[p[1]][p[2]].Type \in {"A", "CNAME", "SRV", "TXT", "NS"}}

DeletesAndAddsTheSame ==
    \/ /\ Len(changes.Delete) = 1 /\ changes.Create = changes.Delete
       /\ changes.UpdateOld = <<>> /\ changes.UpdateNew = <<>>
    \/ /\ Len(changes.UpdateOld) = 1 /\ changes.UpdateNew = changes.UpdateOld
       /\ changes.Create = <<>> /\ changes.Delete = <<>>

\* the record set of the endpoint that DeletesAndAddsTheSame is about
TheSame == endpointToRecordSet((changes.Delete \o changes.UpdateOld)[1])

\* the zone holds exactly this record set
Holds(zone, r) == getRecordSetKey(r) \in DOMAIN zone /\ zone[getRecordSetKey(r)] = r

\* C13: when one ApplyChanges deletes and adds the same record set and the zone
\* the request goes to holds it, ApplyChanges returns no error and the zone
\* holds the record set afterwards
C13_DeletionsBeforeAdditions ==
    (Applied /\ DeletesAndAddsTheSame) =>
        \A id \in DOMAIN separated :
            Holds(before[id], TheSame) => (err = Nil /\ Holds(recordSets[id], TheSame))

\* a stored record set was deleted and added again by one call that succeeded
C13_Witness ==
    /\ Applied /\ DeletesAndAddsTheSame
    /\ Len(calls) = 1 /\ calls[1].err = Nil
    /\ calls[1].request.Deletions = <<TheSame>>
    /\ calls[1].request.Additions = <<TheSame>>
    /\ Holds(before[calls[1].request.DnsZoneId], TheSame)

\* C14: a record set of a supported type whose name ends with a dot, whose TTL
\* is greater than 0 and whose name the domain filter matches comes back from the
\* two conversions as one record set with its name, type, TTL and set of values
C14_RoundTrip ==
    (/\ op = "roundTrip"
     /\ args[1].Type \in {"A", "CNAME", "SRV", "TXT", "NS"}
     /\ HasSuffix(args[1].Name, Dot)
     /\ args[1].Ttl > 0
     /\ DomainFilterMatch(domainFilter, args[1].Name)) =>
        /\ Len(result) = 1
        /\ result[1].Name = args[1].Name
        /\ result[1].Type = args[1].Type
        /\ result[1].Ttl = args[1].Ttl
        /\ Range(result[1].Data) = Range(args[1].Data)

\* the last two ApplyChanges calls created the endpoint and then deleted it
CreatedThenDeleted ==
    /\ Applied /\ previous # NoPrevious
    /\ Len(previous.changes.Create) = 1
    /\ previous.changes = [NoChanges EXCEPT !.Create = previous.changes.Create]
    /\ changes = [NoChanges EXCEPT !.Delete = previous.changes.Create]

\* the record set the two calls of CreatedThenDeleted are about
Created == endpointToRecordSet(previous.changes.Create[1])

\* C15: when a record set that the backend does not hold and whose name belongs
\* to a matched zone is created by an ApplyChanges call that returns no error and
\* deleted by the next, the second call returns no error either and the backend
\* holds what it held before the first
C15_CreateThenDeleteRestores ==
    (/\ CreatedThenDeleted
     /\ previous.err = Nil
     /\ Owners(Created.Name) # {}
     /\ \A id \in DOMAIN previous.before : ~Holds(previous.before[id], Created)) =>
        (err = Nil /\ recordSets = previous.before)

\* the backend would reject the request if it were handed to it now
Rejected(request) == UpdateRecordSets(recordSets, request).err # Nil

\* C16: with dryRun set and the zones listed, ApplyChanges returns no error,
\* whatever the changes
C16_DryRunReturnsNoError ==
    (Applied /\ dryRun /\ listCalls = <<Nil>>) => err = Nil

\* a dry run of changes with a request that the backend would reject
C16_Witness ==
    /\ Applied /\ dryRun /\ listCalls = <<Nil>>
    /\ \E id \in DOMAIN separated : Rejected(separated[id])

\* the endpoints of the four lists of the changes
ChangedEndpoints ==
    Range(changes.Create) \cup Range(changes.UpdateOld) \cup Range(changes.UpdateNew)
        \cup Range(changes.Delete)

\* every UpdateRecordSetsRequest the last ApplyChanges built: the one it filled
\* from the changes, the ones separateChange made of it, the ones it submitted
BuiltRequests ==
    {updateRequest} \cup {separated[id] : id \in DOMAIN separated}
        \cup {calls[i].request : i \in 1..Len(calls)}

\* the record sets of a request
RecordSetsOf(request) == Range(request.Additions) \cup Range(request.Deletions)

\* C17: no request holds the record set of an endpoint whose DNS name the domain
\* filter does not match: every record set of every request is the conversion of
\* an endpoint of the changes that the domain filter matches
C17_OnlyMatchingEndpointsSubmitted ==
    Applied =>
        \A request \in BuiltRequests :
            /\ \A e \in ChangedEndpoints :
                   ~DomainFilterMatch(domainFilter, e.DNSName)
                       => endpointToRecordSet(e) \notin RecordSetsOf(request)
            /\ \A r \in RecordSetsOf(request) :
                   \E e \in ChangedEndpoints :
                       /\ DomainFilterMatch(domainFilter, e.DNSName)
                       /\ r = endpointToRecordSet(e)

\* of two endpoints one is matched by the domain filter and submitted, the other
\* is not matched
C17_Witness ==
    /\ Applied
    /\ \E e \in ChangedEndpoints : ~DomainFilterMatch(domainFilter, e.DNSName)
    /\ \E i \in 1..Len(calls) :
           \E e \in ChangedEndpoints :
               /\ DomainFilterMatch(domainFilter, e.DNSName)
               /\ endpointToRecordSet(e) \in RecordSetsOf(calls[i].request)

\* the record sets of the update whose name belongs to no matched zone
Unowned == {r \in RecordSetsOf(updateRequest) : Owners(r.Name) = {}}

\* C18: an addition or deletion whose name belongs to no matched zone is in no
\* request that separateChange makes or ApplyChanges submits, and when no
\* addition and no deletion belongs to a matched zone ApplyChanges makes no
\* UpdateRecordSets call and returns no error
C18_UnownedRecordsDropped ==
    Applied =>
        /\ \A r \in Unowned :
               /\ \A id \in DOMAIN separated : r \notin RecordSetsOf(separated[id])
               /\ \A i \in 1..Len(calls) : r \notin RecordSetsOf(calls[i].request)
        /\ Unowned = RecordSetsOf(updateRequest)
               => (separated = EmptyMap /\ calls = <<>> /\ err = Nil)

\* without dry-run and with a zone matched, changes were applied of which one
\* belongs to no matched zone
C18_Witness ==
    /\ Applied /\ ~dryRun
    /\ DOMAIN matched # {}
    /\ Unowned # {}
    /\ Len(calls) = 1 /\ err = Nil /\ recordSets # before

\* C19: ApplyChanges makes exactly one List call; every UpdateRecordSets call
\* follows a List call that succeeded and is for a zone that this List call
\* returned; when the List call fails ApplyChanges returns its error, makes no
\* UpdateRecordSets call and leaves the backend as it was
C19_OneListThenUpdates ==
    Applied =>
        /\ Len(listCalls) = 1
        /\ calls # <<>> =>
               /\ listCalls[1] = Nil
               /\ \A i \in 1..Len(calls) :
                      /\ calls[i].request.DnsZoneId \in DOMAIN matched
                      /\ matched[calls[i].request.DnsZoneId]
                             = dnsZones[calls[i].request.DnsZoneId]
        /\ listCalls[1] # Nil =>
               /\ err = listCalls[1]
               /\ calls = <<>>
               /\ separated = EmptyMap
               /\ recordSets = before

\* the List call failed for changes that the backend would have taken
C19_Witness ==
    /\ Applied /\ ~dryRun
    /\ listCalls = <<ListFailed>> /\ err = ListFailed
    /\ \E iter \in Perms(DOMAIN dnsZones) :
           LET requests == separateChange(dnsZones, updateRequest, iter)
           IN  \E id \in DOMAIN requests : ~Rejected(requests[id])

\* C20: an UpdateRecordSets call that returns an error has removed no record set
\* from the zone and added none to it
C20_UpdateIsAllOrNothing ==
    (op = "UpdateRecordSets" /\ err # Nil) => recordSets = before

====
